---- MODULE Spec2Model ----
(***************************************************************************)
(* Model of the shop's ticket projection (src/lib/server/shop/getTickets.ts)*)
(* and of the position page's mandate actions                              *)
(* (src/routes/(app)/positions/[id]/+page.server.ts).                      *)
(*                                                                         *)
(* Time is counted in days.  A JavaScript object is a function from field  *)
(* names to values; an array is an object with a length and its items.     *)
(* A nullable column holds Null when it is null.                           *)
(***************************************************************************)
EXTENDS Integers, Sequences, FiniteSets, TLC

VARIABLES
  tickets,        \* Ticket table: ticket id -> row
  shoppables,     \* Shoppable table: shoppable id (= ticket id) -> row
  consumables,    \* Consumable table: set of rows
  reservations,   \* ConsumableReservation table: set of rows
  events,         \* Event table: event id -> row (with its tags)
  clock,          \* the time of the request, as read by new Date() / dayjs()
  call,           \* the last query call and its arguments
  result,         \* what that call returned
  members,        \* Member table: set of rows
  mandates,       \* Mandate table: set of rows
  nextMandateId,  \* the id the datastore gives to the next created mandate
  kcCalls,        \* the calls issued to keycloak, in order
  reqs            \* the position page's requests in flight

shopVars == <<tickets, shoppables, consumables, reservations, events, clock, call, result>>
mandateVars == <<members, mandates, nextMandateId, kcCalls, reqs>>
vars == <<tickets, shoppables, consumables, reservations, events, clock, call, result,
          members, mandates, nextMandateId, kcCalls, reqs>>

-----------------------------------------------------------------------------
(* Bounds of the model *)

MaxStamp == 2          \* availableTo and removedAt of the ticket rows range over 0..MaxStamp
MaxTime == 12          \* the latest time of a request
MaxStock == 11         \* the largest stock of a ticket
MaxConsumables == 2    \* the number of Consumable rows of the ticket under test
MaxCalls == 3          \* the number of keycloak calls issued in a behaviour

(* Program constants *)

Null == -1             \* null in a nullable column
TEN_DAYS == 10         \* dayjs().subtract(10, "days")
TICKETS_LEFT_CAP == 10 \* Math.min(..., 10)
GRACE_PERIOD_WINDOW == 1

TicketIds == {"t1", "t2"}
EventIds == {"e1", "e2"}
Identifications == {"u1", "u2"}

\* the position page requests that may be in flight at once
Slots == {1, 2}

-----------------------------------------------------------------------------
(* JavaScript objects and arrays *)

\* {...a, ...b}: the fields of both, b's value where both have the field
Spread(a, b) == b @@ a

\* delete o.k
Delete(o, k) == [f \in DOMAIN o \ {k} |-> o[f]]

\* an array holding the items of the sequence xs
Array(xs) == [length |-> Len(xs), items |-> xs]

\* xs.filter(P) is Array(SelectSeq(xs.items, P)), and xs.map(F) is
\* Array([i \in 1..xs.length |-> F(xs.items[i])])

\* the sequences that hold each element of S exactly once
Perms(S) ==
  {s \in [1..Cardinality(S) -> S] : \A i, j \in 1..Cardinality(S) : i # j => s[i] # s[j]}

\* the rows of S in the order of their ids
RECURSIVE RowsById(_)
RowsById(S) ==
  IF S = {} THEN <<>>
  ELSE LET first == CHOOSE r \in S : \A q \in S : r.id <= q.id
       IN <<first>> \o RowsById(S \ {first})

-----------------------------------------------------------------------------
(* The datastore's evaluation of the queries of getTickets.ts *)

\* the ownership predicate of a requester
dbIdentification(identification) == [owner |-> identification]

\* where: { ...id }
MatchesId(row, id) == \A k \in DOMAIN id : row[k] = id[k]

\* consumables: where { ...id, OR: [purchasedAt not null, expiresAt > now, expiresAt null] }
ConsumablesWhere(c, id, now) ==
  /\ MatchesId(c, id)
  /\ \/ c.purchasedAt # Null
     \/ (c.expiresAt # Null /\ c.expiresAt > now)
     \/ c.expiresAt = Null

\* reservations: where { ...id }
ReservationsWhere(r, id) == MatchesId(r, id)

\* _count.consumables: where { purchasedAt: { not: null } }
CountConsumablesWhere(c) == c.purchasedAt # Null

\* _count.reservations: where { order: { not: null } }
CountReservationsWhere(r) == r.order # Null

\* shoppable: { include: { consumables, reservations, _count } } of the shoppable sid
ShoppableIncluded(id, sid) ==
  Spread(shoppables[sid],
         ("_count" :>
            [consumables |->
               Cardinality({c \in consumables : c.shoppableId = sid /\ CountConsumablesWhere(c)}),
             reservations |->
               Cardinality({r \in reservations : r.shoppableId = sid /\ CountReservationsWhere(r)})])
         @@
         [consumables |->
            Array(RowsById({c \in consumables :
                              c.shoppableId = sid /\ ConsumablesWhere(c, id, clock)})),
          reservations |->
            Array(RowsById({r \in reservations :
                              r.shoppableId = sid /\ ReservationsWhere(r, id)}))])

\* the ticket row tid with include: ticketIncludedFields(id)
ticketIncludedFields(id, tid) ==
  Spread(tickets[tid],
         [shoppable |-> ShoppableIncluded(id, tid),
          event |-> events[tickets[tid].eventId]])

-----------------------------------------------------------------------------
(* formatTicket *)

\* mutant: every Consumable of the requester counts as a cart entry
isInUsersCartAnyConsumable(ticket) ==
  \/ ticket.shoppable.consumables.length > 0
  \/ ticket.shoppable.reservations.length > 0

isInUsersCart(ticket) ==
  \/ Array(SelectSeq(ticket.shoppable.consumables.items,
                     LAMBDA c : c.purchasedAt = Null)).length > 0
  \/ ticket.shoppable.reservations.length > 0

\* mutant: cart holds count towards the maximum
userAlreadyHasMaxCountsCart(ticket) ==
  ticket.shoppable.consumables.length >= ticket.maxAmountPerUser

userAlreadyHasMax(ticket) ==
  Array(SelectSeq(ticket.shoppable.consumables.items,
                  LAMBDA c : c.purchasedAt # Null)).length >= ticket.maxAmountPerUser

Min(a, b) == IF a <= b THEN a ELSE b

\* mutant: the exact number left, without the cap
ticketsLeftUncapped(ticket) ==
  ticket.stock - ticket.shoppable["_count"].consumables

ticketsLeft(ticket) ==
  Min(ticket.stock - ticket.shoppable["_count"].consumables, TICKETS_LEFT_CAP)

hasQueue(ticket) == ticket.shoppable["_count"].reservations > 0

\* mutant: delete base.shoppable is missing
StripHiddenKeepsShoppable(base) ==
  Delete(Delete(Delete(base, "consumables"), "reservations"), "_count")

\* mutant: delete base._count is missing
StripHiddenKeepsCount(base) ==
  Delete(Delete(Delete(base, "consumables"), "reservations"), "shoppable")

\* the four delete statements
StripHidden(base) ==
  Delete(Delete(Delete(Delete(base, "consumables"), "reservations"), "shoppable"), "_count")

formatTicket(ticket) ==
  LET base ==
        Spread(Spread(ticket.shoppable, ticket),
               [userItemsInCart |-> ticket.shoppable.consumables,
                userReservations |-> ticket.shoppable.reservations,
                gracePeriodEndsAt |-> ticket.shoppable.availableFrom + GRACE_PERIOD_WINDOW,
                isInUsersCart |-> isInUsersCart(ticket),
                userAlreadyHasMax |-> userAlreadyHasMax(ticket),
                ticketsLeft |-> ticketsLeft(ticket),
                hasQueue |-> hasQueue(ticket)])
  IN StripHidden(base)

\* the value returned for "no ticket"
NoResult == [null |-> TRUE]

-----------------------------------------------------------------------------
(* getTicket *)

\* mutant: findFirstOrThrow, a missing ticket is an exception
getTicketOrThrow(id, userId) ==
  LET dbId == dbIdentification(userId)
      found == {tid \in DOMAIN tickets : tickets[tid].id = id}
  IN IF found = {} THEN [threw |-> "NotFoundError"]
     ELSE formatTicket(ticketIncludedFields(dbId, CHOOSE tid \in found : TRUE))

getTicket(id, userId) ==
  LET dbId == dbIdentification(userId)
      found == {tid \in DOMAIN tickets : tickets[tid].id = id}
  IN IF found = {} THEN NoResult
     ELSE formatTicket(ticketIncludedFields(dbId, CHOOSE tid \in found : TRUE))

GetTicket ==
  \E id \in TicketIds \cup {"t3"}, userId \in Identifications :
    /\ call' = [op |-> "getTicket", id |-> id, identification |-> userId]
    /\ result' = getTicket(id, userId)
    /\ UNCHANGED <<tickets, shoppables, consumables, reservations, events, clock>>
    /\ UNCHANGED mandateVars

-----------------------------------------------------------------------------
(* getTickets *)

\* OR: [{ removedAt: null }, { removedAt: { lt: new Date() } }]
RemovedAtWhere(shoppable, now) ==
  \/ shoppable.removedAt = Null
  \/ (shoppable.removedAt # Null /\ shoppable.removedAt < now)

\* OR: [{ availableTo: null }, { availableTo: { gt: tenDaysAgo } }]
AvailableToWhere(shoppable, tenDaysAgo) ==
  \/ shoppable.availableTo = Null
  \/ (shoppable.availableTo # Null /\ shoppable.availableTo > tenDaysAgo)

\* mutant: availableTo is compared with now, not with ten days ago
TicketsWhereNoTrailingWindow(tid, now) ==
  /\ RemovedAtWhere(shoppables[tid], now)
  /\ AvailableToWhere(shoppables[tid], now)

\* where: { shoppable: { AND: [...] } }
TicketsWhere(tid, now) ==
  LET tenDaysAgo == now - TEN_DAYS
  IN /\ RemovedAtWhere(shoppables[tid], now)
     /\ AvailableToWhere(shoppables[tid], tenDaysAgo)

\* orderBy: { shoppable: { availableFrom: "asc" } }: the orders the datastore may
\* return the tickets S in (rows with equal availableFrom come in any order)
OrderByAvailableFrom(S) ==
  {s \in Perms(S) :
     \A i, j \in 1..Cardinality(S) :
        i < j => shoppables[s[i]].availableFrom <= shoppables[s[j]].availableFrom}

GetTickets ==
  \E identification \in Identifications :
    LET dbId == dbIdentification(identification)
        found == {tid \in DOMAIN tickets : TicketsWhere(tid, clock)}
    IN \E order \in OrderByAvailableFrom(found) :
         /\ call' = [op |-> "getTickets", identification |-> identification]
         /\ LET found_tickets == Array([i \in 1..Len(order) |->
                                          ticketIncludedFields(dbId, order[i])])
            IN result' = Array([i \in 1..found_tickets.length |->
                                  formatTicket(found_tickets.items[i])])
         /\ UNCHANGED <<tickets, shoppables, consumables, reservations, events, clock>>
         /\ UNCHANGED mandateVars

-----------------------------------------------------------------------------
(* getEventsWithTickets *)

\* the base filter of visible events
BASIC_EVENT_FILTER(event) == event.removedAt = Null

\* the sets of events a caller's filters may select
EventFilters == {EventIds, {"e1"}}

\* orderBy: { startDatetime: "asc" }
OrderByStartDatetime(S) ==
  {s \in Perms(S) :
     \A i, j \in 1..Cardinality(S) :
        i < j => events[s[i]].startDatetime <= events[s[j]].startDatetime}

\* tickets: { include: { ...ticketIncludedFields(dbId), event: false } }: the tickets of
\* the event eid, in the order rowOrder the datastore holds the ticket rows in (the
\* query gives the nested tickets neither a where nor an orderBy)
EventTicketsIncluded(id, eid, rowOrder) ==
  LET own == SelectSeq(rowOrder, LAMBDA tid : tickets[tid].eventId = eid)
  IN Array([i \in 1..Len(own) |->
              Spread(tickets[own[i]], [shoppable |-> ShoppableIncluded(id, own[i])])])

\* events.map((event) => ...)
formatEvent(event) ==
  LET eventData == Delete(event, "tickets")
  IN Spread(event,
            [tickets |->
               Array([i \in 1..event.tickets.length |->
                        formatTicket(Spread(event.tickets.items[i], [event |-> eventData]))])])

GetEventsWithTickets ==
  \E identification \in Identifications, filters \in EventFilters :
    LET dbId == dbIdentification(identification)
        found == {eid \in DOMAIN events : BASIC_EVENT_FILTER(events[eid]) /\ eid \in filters}
    IN \E order \in OrderByStartDatetime(found), rowOrder \in Perms(DOMAIN tickets) :
         /\ call' = [op |-> "getEventsWithTickets", identification |-> identification]
         /\ LET found_events ==
                  Array([i \in 1..Len(order) |->
                           Spread(events[order[i]],
                                  [tickets |-> EventTicketsIncluded(dbId, order[i], rowOrder)])])
            IN result' = Array([i \in 1..found_events.length |->
                                  formatEvent(found_events.items[i])])
         /\ UNCHANGED <<tickets, shoppables, consumables, reservations, events, clock>>
         /\ UNCHANGED mandateVars

-----------------------------------------------------------------------------
(* The states of the datastore the queries are checked on *)

NullOr(S) == {Null} \cup S

Stamps == 0..MaxStamp

TheEvents ==
  [eid \in EventIds |->
     [id |-> eid,
      startDatetime |-> IF eid = "e1" THEN 1 ELSE 0,
      removedAt |-> Null,
      tags |-> Array(<<[id |-> "tag1", name |-> "party"]>>)]]

NoCall == [op |-> "none"]

InitMandatesIdle ==
  /\ members = {}
  /\ mandates = {}
  /\ nextMandateId = 1
  /\ kcCalls = <<>>
  /\ reqs = [s \in Slots |-> [pc |-> "idle"]]

\* Consumable rows of the ticket under test: who holds it, whether it is purchased,
\* when its cart hold expires
ConsumableClasses ==
  {c \in [owner : Identifications, purchasedAt : {Null, 0}, expiresAt : NullOr(0..2)] :
     c.purchasedAt # Null => c.expiresAt \in {Null, 0}}

ClassRank(c) ==
  (IF c.owner = "u1" THEN 0 ELSE 100) + 10 * (c.purchasedAt + 1) + (c.expiresAt + 1)

ReservationClasses == [owner : Identifications, order : {Null, 1}]

\* rows of the other ticket, which no query about the ticket under test may count
OtherTicketConsumables ==
  {[id |-> 0, shoppableId |-> "t2", owner |-> "u1", purchasedAt |-> 0, expiresAt |-> Null]}

OtherTicketReservations ==
  {[id |-> 0, shoppableId |-> "t2", owner |-> "u1", order |-> 1]}

StockVals == {0} \cup ((TICKETS_LEFT_CAP - 1)..MaxStock)

\* one ticket with every stock, per-user maximum and combination of Consumable and
\* Reservation rows, at time 1
InitProjection ==
  /\ \E stock \in StockVals, maxAmountPerUser \in 1..2 :
       tickets =
         [tid \in TicketIds |->
            [id |-> tid,
             stock |-> IF tid = "t1" THEN stock ELSE 5,
             maxAmountPerUser |-> IF tid = "t1" THEN maxAmountPerUser ELSE 1,
             eventId |-> "e1"]]
  /\ shoppables =
       [tid \in TicketIds |->
          [id |-> tid, availableFrom |-> 0, availableTo |-> Null, removedAt |-> Null]]
  /\ \E n \in 0..MaxConsumables :
       \E cls \in [1..n -> ConsumableClasses] :
         /\ \A i, j \in 1..n : i < j => ClassRank(cls[i]) <= ClassRank(cls[j])
         /\ consumables =
              OtherTicketConsumables \cup
              {[id |-> i, shoppableId |-> "t1", owner |-> cls[i].owner,
                purchasedAt |-> cls[i].purchasedAt, expiresAt |-> cls[i].expiresAt] :
                 i \in 1..n}
  /\ \E rs \in {{}} \cup {{r} : r \in ReservationClasses} :
       reservations =
         OtherTicketReservations \cup
         {[id |-> 1, shoppableId |-> "t1", owner |-> r.owner, order |-> r.order] : r \in rs}
  /\ events = TheEvents
  /\ clock = 1
  /\ call = NoCall
  /\ result = NoResult
  /\ InitMandatesIdle

\* two tickets with every availability window and removal time, at the times around
\* ten days after them
InitListing ==
  /\ tickets =
       [tid \in TicketIds |->
          [id |-> tid, stock |-> 5, maxAmountPerUser |-> 1, eventId |-> "e1"]]
  /\ \E window \in [TicketIds -> [availableFrom : 0..1, availableTo : NullOr(Stamps),
                                    removedAt : NullOr(Stamps)]] :
       shoppables = [tid \in TicketIds |-> Spread(window[tid], [id |-> tid])]
  /\ consumables =
       {[id |-> 1, shoppableId |-> "t1", owner |-> "u1", purchasedAt |-> Null, expiresAt |-> Null],
        [id |-> 2, shoppableId |-> "t1", owner |-> "u2", purchasedAt |-> 0, expiresAt |-> Null]}
  /\ reservations =
       {[id |-> 1, shoppableId |-> "t2", owner |-> "u2", order |-> 1]}
  /\ events = TheEvents
  /\ clock \in {0} \cup ((TEN_DAYS - 1)..MaxTime)
  /\ call = NoCall
  /\ result = NoResult
  /\ InitMandatesIdle

NextProjection == GetTicket

NextListing == GetTickets \/ GetEventsWithTickets

SpecProjection == InitProjection /\ [][NextProjection]_vars

SpecListing == InitListing /\ [][NextListing]_vars

-----------------------------------------------------------------------------
(* The position page's addMandate and deleteMandate actions.  A request runs one
   step up to each await; the requests in flight interleave at the awaits. *)

PositionIds == {"p1", "p2"}

\* the forms a request may post: an invalid one, or a valid one with its data
AddMandateForms ==
  {[valid |-> FALSE]} \cup
  [valid : {TRUE}, memberId : {"m1", "m9"}, startDate : {0}, endDate : {1}]

DeleteMandateForms ==
  {[valid |-> FALSE]} \cup [valid : {TRUE}, mandateId : {1, 2}]

InFlight == {s \in DOMAIN reqs : reqs[s].pc \notin {"idle", "done"}}

Done(req, response) ==
  [pc |-> "done", action |-> req.action, params |-> req.params, form |-> req.form,
   response |-> response]

\* a request arrives and superValidate(request, schema) is awaited
Receive(s) ==
  /\ reqs[s].pc \in {"idle", "done"}
  /\ Len(kcCalls) + Cardinality(InFlight) < MaxCalls
  /\ \E id \in PositionIds :
       \/ \E form \in AddMandateForms :
            reqs' = [reqs EXCEPT ![s] = [pc |-> "validate", action |-> "addMandate",
                                         params |-> [id |-> id], form |-> form]]
       \/ \E form \in DeleteMandateForms :
            reqs' = [reqs EXCEPT ![s] = [pc |-> "validate", action |-> "deleteMandate",
                                         params |-> [id |-> id], form |-> form]]
  /\ UNCHANGED <<members, mandates, nextMandateId, kcCalls>>
  /\ UNCHANGED shopVars

\* if (!form.valid) return fail(400, { form }); else the member query is awaited
Validate(s) ==
  /\ reqs[s].pc = "validate"
  /\ reqs' = [reqs EXCEPT ![s] =
                IF ~reqs[s].form.valid THEN Done(reqs[s], "fail400")
                ELSE [reqs[s] EXCEPT !.pc = "findMember"]]
  /\ UNCHANGED <<members, mandates, nextMandateId, kcCalls>>
  /\ UNCHANGED shopVars

\* prisma.member.findUnique({ where: { id: form.data.memberId } })
FindUniqueMember(memberId) == {m \in members : m.id = memberId}

\* prisma.member.findFirst({ where: { mandates: { some: { id: mandateId } } } })
FindFirstMemberOfMandate(mandateId) ==
  {m \in members : \E md \in mandates : md.id = mandateId /\ md.memberId = m.id}

\* the member query resolves: if (!member) return an error; else the write is awaited
FindMember(s) ==
  /\ reqs[s].pc = "findMember"
  /\ LET found == IF reqs[s].action = "addMandate"
                  THEN FindUniqueMember(reqs[s].form.memberId)
                  ELSE FindFirstMemberOfMandate(reqs[s].form.mandateId)
     IN reqs' = [reqs EXCEPT ![s] =
                   IF found = {}
                   THEN Done(reqs[s], IF reqs[s].action = "addMandate"
                                      THEN "memberNotFound" ELSE "mandateNotFound")
                   ELSE Spread(reqs[s], [pc |-> "write", member |-> CHOOSE m \in found : TRUE])]
  /\ UNCHANGED <<members, mandates, nextMandateId, kcCalls>>
  /\ UNCHANGED shopVars

\* mutant: a failed write is swallowed and the handler goes on
MandateCreateSwallowsError(s) ==
  /\ reqs[s].pc = "write"
  /\ reqs[s].action = "addMandate"
  /\ \/ /\ mandates' = mandates \cup
                         {[id |-> nextMandateId,
                           positionId |-> reqs[s].params.id,
                           memberId |-> reqs[s].form.memberId,
                           startDate |-> reqs[s].form.startDate,
                           endDate |-> reqs[s].form.endDate]}
        /\ nextMandateId' = nextMandateId + 1
        /\ reqs' = [reqs EXCEPT ![s].pc = "written"]
     \/ /\ reqs' = [reqs EXCEPT ![s].pc = "written"]
        /\ UNCHANGED <<mandates, nextMandateId>>
  /\ UNCHANGED <<members, kcCalls>>
  /\ UNCHANGED shopVars

\* await prisma.mandate.create({ data: {...} }): the row is created, or the write
\* fails and the handler ends with the exception
MandateCreate(s) ==
  /\ reqs[s].pc = "write"
  /\ reqs[s].action = "addMandate"
  /\ \/ /\ mandates' = mandates \cup
                         {[id |-> nextMandateId,
                           positionId |-> reqs[s].params.id,
                           memberId |-> reqs[s].form.memberId,
                           startDate |-> reqs[s].form.startDate,
                           endDate |-> reqs[s].form.endDate]}
        /\ nextMandateId' = nextMandateId + 1
        /\ reqs' = [reqs EXCEPT ![s].pc = "written"]
     \/ /\ reqs' = [reqs EXCEPT ![s] = Done(reqs[s], "threw")]
        /\ UNCHANGED <<mandates, nextMandateId>>
  /\ UNCHANGED <<members, kcCalls>>
  /\ UNCHANGED shopVars

\* await prisma.mandate.delete({ where: { id, positionId: params.id } }): the row is
\* deleted; with no such row, or when the write fails, the handler ends with the exception
MandateDelete(s) ==
  /\ reqs[s].pc = "write"
  /\ reqs[s].action = "deleteMandate"
  /\ LET rows == {md \in mandates : /\ md.id = reqs[s].form.mandateId
                                    /\ md.positionId = reqs[s].params.id}
     IN \/ /\ rows # {}
           /\ mandates' = mandates \ rows
           /\ reqs' = [reqs EXCEPT ![s].pc = "written"]
        \/ /\ reqs' = [reqs EXCEPT ![s] = Done(reqs[s], "threw")]
           /\ UNCHANGED mandates
  /\ UNCHANGED <<members, nextMandateId, kcCalls>>
  /\ UNCHANGED shopVars

\* keycloak.addMandate(member.studentId!, params.id) or
\* keycloak.deleteMandate(member.studentId!, params.id); return message(form, ...)
KeycloakCall(req) ==
  [fn |-> req.action, studentId |-> req.member.studentId, positionId |-> req.params.id]

Notify(s) ==
  /\ reqs[s].pc = "written"
  /\ kcCalls' = Append(kcCalls, KeycloakCall(reqs[s]))
  /\ reqs' = [reqs EXCEPT ![s] = Done(reqs[s], "success")]
  /\ UNCHANGED <<members, mandates, nextMandateId>>
  /\ UNCHANGED shopVars

TheMembers == {[id |-> "m1", studentId |-> "ab1234cd-s", firstName |-> "Adam"]}

InitMandates ==
  /\ tickets = <<>>
  /\ shoppables = <<>>
  /\ consumables = {}
  /\ reservations = {}
  /\ events = <<>>
  /\ clock = 0
  /\ call = NoCall
  /\ result = NoResult
  /\ members = TheMembers
  /\ mandates = {[id |-> 1, positionId |-> "p1", memberId |-> "m1",
                  startDate |-> 0, endDate |-> 1]}
  /\ nextMandateId = 2
  /\ kcCalls = <<>>
  /\ reqs = [s \in Slots |-> [pc |-> "idle"]]

NextMandates ==
  \E s \in Slots :
    \/ Receive(s)
    \/ Validate(s)
    \/ FindMember(s)
    \/ MandateCreate(s)
    \/ MandateDelete(s)
    \/ Notify(s)

SpecMandates == InitMandates /\ [][NextMandates]_vars

-----------------------------------------------------------------------------
(* Properties of the projection, checked on what getTicket returned *)

\* getTicket was called for a ticket of the datastore and returned its projection
Projected == call.op = "getTicket" /\ result # NoResult

\* the Consumable rows of ticket tid that are purchased, whoever holds them
PurchasedOf(tid) ==
  {c \in consumables : c.shoppableId = tid /\ c.purchasedAt # Null}

\* the requester's Consumable and Reservation rows of ticket tid
ConsumablesOf(tid, who) == {c \in consumables : c.shoppableId = tid /\ c.owner = who}
ReservationsOf(tid, who) == {r \in reservations : r.shoppableId = tid /\ r.owner = who}

\* C1: ticketsLeft is at most 10: it is 10 when stock minus the purchased count is 10
\* or more, and stock minus the purchased count when that is below 10.
C1_TicketsLeftCapped ==
  Projected =>
    LET remaining == tickets[call.id].stock - Cardinality(PurchasedOf(call.id))
    IN /\ result.ticketsLeft <= 10
       /\ (remaining >= 10 => result.ticketsLeft = 10)
       /\ (remaining < 10 => result.ticketsLeft = remaining)

\* a ticket with more than 10 left is shown as 10
C1_Witness ==
  /\ Projected
  /\ tickets[call.id].stock - Cardinality(PurchasedOf(call.id)) > 10
  /\ result.ticketsLeft = 10

\* the record the datastore returned for the call, which formatTicket was given
Payload == ticketIncludedFields(dbIdentification(call.identification), call.id)

DerivedFields == {"isInUsersCart", "userAlreadyHasMax", "hasQueue", "ticketsLeft"}

\* the fields that hold a column of the Ticket or Shoppable row, or the grace date
ColumnFields ==
  DOMAIN tickets[call.id] \cup DOMAIN shoppables[call.id] \cup {"gracePeriodEndsAt"}

HiddenFields == {"consumables", "reservations", "_count"}

\* the value v is the object x, or an object that has x in one of the hidden fields
Holds(v, x) == v = x \/ \E g \in DOMAIN v \cap HiddenFields : v[g] = x

\* the fields of the result, other than the allowed ones, that hold the requester's
\* (non-empty) list of Consumables or of Reservations, or the aggregate counts
LeakingFields(allowed) ==
  {f \in DOMAIN result \ (ColumnFields \cup allowed) :
     \/ Payload.shoppable.consumables.length > 0
        /\ Holds(result[f], Payload.shoppable.consumables)
     \/ Payload.shoppable.reservations.length > 0
        /\ Holds(result[f], Payload.shoppable.reservations)
     \/ Holds(result[f], Payload.shoppable["_count"])}

\* C4 as stated: apart from the derived booleans and ticketsLeft, no field of the
\* projection holds the requester's list of Consumables or Reservations or an
\* aggregate count.
C4_NoListOrCountInAnyField ==
  Projected => LeakingFields(DerivedFields) = {}

\* C4 as amended: apart from the derived booleans, ticketsLeft, and the two fields
\* userItemsInCart and userReservations (which hold the requester's own lists), no
\* field of the projection holds the requester's list of Consumables or Reservations
\* or the aggregate counts.
C4_OnlyOwnListsExposed ==
  Projected =>
    /\ LeakingFields(DerivedFields \cup {"userItemsInCart", "userReservations"}) = {}
    /\ result.userItemsInCart = Payload.shoppable.consumables
    /\ result.userReservations = Payload.shoppable.reservations

\* a requester with Consumables and a Reservation of the ticket gets its projection
C4_Witness ==
  /\ Projected
  /\ Payload.shoppable.consumables.length > 0
  /\ Payload.shoppable.reservations.length > 0
  /\ Payload.shoppable["_count"].consumables > 0

\* C5: the object formatTicket returns has no field named consumables, reservations
\* or _count, nor the nested shoppable object.
C5_NoRawFields ==
  Projected => DOMAIN result \cap (HiddenFields \cup {"shoppable"}) = {}

\* the input had all four fields, the ticket and shoppable parts share the field id
C5_Witness ==
  /\ Projected
  /\ HiddenFields \subseteq DOMAIN Payload.shoppable
  /\ "id" \in DOMAIN Payload.shoppable \cap DOMAIN tickets[call.id]
  /\ Payload.shoppable.consumables.length > 0
  /\ "userItemsInCart" \in DOMAIN result

\* C6 as stated: isInUsersCart is true iff the requester has at least one Consumable
\* of the ticket with null purchasedAt or at least one Reservation for it.
C6_InCartIffAnyUnpurchased ==
  Projected =>
    (result.isInUsersCart <=>
       \/ \E c \in ConsumablesOf(call.id, call.identification) : c.purchasedAt = Null
       \/ ReservationsOf(call.id, call.identification) # {})

\* C6 as amended: isInUsersCart is true iff the requester has at least one Consumable
\* of the ticket with null purchasedAt whose expiresAt is null or later than the time
\* of the request, or at least one Reservation for it.
C6_InCartIffUnexpiredHold ==
  Projected =>
    (result.isInUsersCart <=>
       \/ \E c \in ConsumablesOf(call.id, call.identification) :
            c.purchasedAt = Null /\ (c.expiresAt = Null \/ c.expiresAt > clock)
       \/ ReservationsOf(call.id, call.identification) # {})

\* the requester has only purchased Consumables and an expired cart hold, no
\* Reservation, and is told the ticket is not in the cart
C6_Witness ==
  /\ Projected
  /\ ReservationsOf(call.id, call.identification) = {}
  /\ \E c \in ConsumablesOf(call.id, call.identification) : c.purchasedAt # Null
  /\ \E c \in ConsumablesOf(call.id, call.identification) :
       c.purchasedAt = Null /\ c.expiresAt # Null /\ c.expiresAt <= clock
  /\ ~result.isInUsersCart

\* C7: userAlreadyHasMax is true exactly when the number of the requester's purchased
\* Consumables of the ticket is at least maxAmountPerUser.
C7_HasMaxIffPurchasedReachMax ==
  Projected =>
    (result.userAlreadyHasMax <=>
       Cardinality({c \in ConsumablesOf(call.id, call.identification) : c.purchasedAt # Null})
         >= tickets[call.id].maxAmountPerUser)

\* with maxAmountPerUser = 2 and 2 purchased Consumables the requester has the maximum
C7_Witness ==
  /\ Projected
  /\ tickets[call.id].maxAmountPerUser = 2
  /\ Cardinality({c \in ConsumablesOf(call.id, call.identification) : c.purchasedAt # Null}) = 2
  /\ result.userAlreadyHasMax

\* C9: getTicket with an id that matches no ticket returns the no-result value, with
\* the id of a ticket it returns that ticket's projection, and in both cases it
\* leaves the datastore unchanged.
C9_GetTicketNoResultOrProjection ==
  [][call'.op = "getTicket" =>
       /\ ((\A tid \in DOMAIN tickets' : tickets'[tid].id # call'.id) => result' = NoResult)
       /\ \A tid \in DOMAIN tickets' :
            tickets'[tid].id = call'.id =>
              /\ result' # NoResult
              /\ result'.id = call'.id
              /\ result'.stock = tickets'[tid].stock
              /\ DerivedFields \subseteq DOMAIN result'
       /\ <<tickets, shoppables, consumables, reservations, events>>' =
            <<tickets, shoppables, consumables, reservations, events>>]_vars

\* getTicket was called with the id of no ticket and returned the no-result value
C9_Witness ==
  /\ call.op = "getTicket"
  /\ \A tid \in DOMAIN tickets : tickets[tid].id # call.id
  /\ result = NoResult

-----------------------------------------------------------------------------
(* Properties of the listings *)

Listed == call.op = "getTickets"

InListing(tid) == \E i \in 1..result.length : result.items[i].id = tid

\* C2: the listing excludes every ticket whose removedAt is in the past, and includes
\* a ticket whose removedAt is null or in the future when its availableTo is null or
\* less than 10 days in the past.
C2_RemovedInPastExcluded ==
  Listed =>
    \A tid \in DOMAIN tickets :
      LET sh == shoppables[tid]
      IN /\ (sh.removedAt # Null /\ sh.removedAt < clock) => ~InListing(tid)
         /\ ((sh.removedAt = Null \/ sh.removedAt > clock)
             /\ (sh.availableTo = Null \/ sh.availableTo > clock - 10))
            => InListing(tid)

C8_NestedTicketsFollowListingRules ==
  call.op = "getEventsWithTickets" =>
    \A e \in 1..result.length :
      LET event == result.items[e]
      IN \A i \in 1..event.tickets.length :
           /\ TicketsWhere(event.tickets.items[i].id, clock)
           /\ \A j \in 1..event.tickets.length :
                i < j => event.tickets.items[i].availableFrom
                           <= event.tickets.items[j].availableFrom
           /\ event.tickets.items[i].event = Delete(events[event.id], "tickets")
           /\ "tickets" \notin DOMAIN event.tickets.items[i].event

-----------------------------------------------------------------------------
(* Properties of the mandate actions *)

FailureResponses == {"fail400", "memberNotFound", "mandateNotFound", "threw"}

\* request s ends in this step
Ends(s) == reqs[s].pc \notin {"idle", "done"} /\ reqs'[s].pc = "done"

\* the datastore write of request s completes in this step
WriteCompletes(s) ==
  /\ reqs[s].pc = "write"
  /\ reqs'[s].pc = "written"
  /\ IF reqs[s].action = "addMandate"
     THEN \E row \in mandates' \ mandates :
            /\ mandates' = mandates \cup {row}
            /\ row.positionId = reqs[s].params.id
            /\ row.memberId = reqs[s].form.memberId
     ELSE \E row \in mandates \ mandates' :
            /\ mandates' = mandates \ {row}
            /\ row.id = reqs[s].form.mandateId

\* C10: a keycloak call is issued only by a request whose datastore create / delete
\* has completed, and it is the call of that request's action; a request only gets
\* there by its write completing; and a request that ends with a failure (invalid
\* form, member or mandate not found, failed write) changes no mandate row and issues
\* no keycloak call.
C10_KeycloakOnlyAfterWrite ==
  [][/\ kcCalls' # kcCalls =>
          \E s \in DOMAIN reqs :
            /\ reqs[s].pc = "written"
            /\ reqs'[s].pc = "done"
            /\ kcCalls' = Append(kcCalls, [fn |-> reqs[s].action,
                                           studentId |-> reqs[s].member.studentId,
                                           positionId |-> reqs[s].params.id])
     /\ \A s \in DOMAIN reqs :
          (reqs'[s].pc = "written" /\ reqs[s].pc # "written") => WriteCompletes(s)
     /\ mandates' # mandates => \E s \in DOMAIN reqs : WriteCompletes(s)
     /\ \A s \in DOMAIN reqs :
          (Ends(s) /\ reqs'[s].response \in FailureResponses) =>
             /\ mandates' = mandates
             /\ kcCalls' = kcCalls
             /\ reqs[s].pc # "written"]_vars

\* both keycloak calls were issued, and requests ended with each kind of failure
C10_Witness ==
  /\ \E i \in 1..Len(kcCalls) : kcCalls[i].fn = "addMandate"
  /\ \E i \in 1..Len(kcCalls) : kcCalls[i].fn = "deleteMandate"
  /\ \E s \in DOMAIN reqs : reqs[s].pc = "done" /\ reqs[s].response = "threw"
  /\ \E s \in DOMAIN reqs : reqs[s].pc = "done" /\ reqs[s].response \in
                               {"fail400", "memberNotFound", "mandateNotFound"}

====
